---- MODULE Spec2Model ----
(***************************************************************************)
(* A model of romeopeter/autotrader: the StockFrame price store            *)
(* (src/robot/stock_frame.py) and the Indicator engine                     *)
(* (src/robot/indicator.py).                                               *)
(*                                                                         *)
(* A pandas frame is a sequence of rows in index order; a row carries its  *)
(* MultiIndex key (symbol, datetime) and the five price columns.  A call   *)
(* that raises leaves the name of the exception in `raised`.               *)
(***************************************************************************)
EXTENDS Integers, Sequences, FiniteSets, TLC

VARIABLES
    frame,               \* StockFrame._frame (the same object as Indicator._frame)
    price_groups,        \* Indicator._price_groups: the index the groupby captured
    price_groups_attr,   \* Indicator.price_groups, the attribute refresh() assigns
    current_indicators,  \* Indicator._current_indicators, in insertion order
    indicator_signals,   \* Indicator._indicator_signals, in insertion order
    positions,           \* Portfolio.positions: symbol -> position
    trade,               \* the attributes of a Trade object, by name
    raised,              \* the exception the last call raised, or "none"
    call                 \* the last call: its arguments, and its result if it has one

vars ==
    <<frame, price_groups, price_groups_attr, current_indicators, indicator_signals,
      positions, trade, raised, call>>

\* The Portfolio and the Trade, which the store and the Indicator do not touch.
deskVars == <<positions, trade>>

indVars == <<price_groups, price_groups_attr, current_indicators, indicator_signals>>

-----------------------------------------------------------------------------
(* Bounds of the model. *)

MaxTs == 1
MaxRows == 3
MaxPeriod == 2

Symbols == {"A", "B"}

\* "datetime" values of the quotes, epoch milliseconds.
Millis == 0 .. MaxTs

\* Closing prices of the quotes.
Prices == {1, 2}

Periods == 1 .. MaxPeriod

\* The price columns of one quote; the columns differ so that a mix-up shows.
Quote(c) ==
    [open |-> c + 1, close |-> c, high |-> c + 2, low |-> c - 1, volume |-> 10 * c]

column_names == <<"open", "close", "high", "low", "volume">>

\* The columns of the frame: the price columns add_rows writes.
FrameColumns == {column_names[i] : i \in DOMAIN column_names}

-----------------------------------------------------------------------------
(* Floating-point values as fractions <<n, d>> in lowest terms, d > 0;      *)
(* NaN is <<0, 0>>, +inf <<1, 0>>, -inf <<-1, 0>>.                          *)

RECURSIVE Gcd(_, _)
Gcd(a, b) == IF b = 0 THEN a ELSE Gcd(b, a % b)

Abs(n) == IF n < 0 THEN 0 - n ELSE n

Sign(n) == IF n < 0 THEN -1 ELSE IF n = 0 THEN 0 ELSE 1

Norm(n, d) ==
    IF d = 0 THEN <<Sign(n), 0>>
    ELSE LET g == Gcd(Abs(n), Abs(d)) IN <<(Sign(d) * n) \div g, Abs(d) \div g>>

Rat(n) == <<n, 1>>

NaN == <<0, 0>>

IsNaN(x) == x = NaN

IsFinite(x) == x[2] # 0

FAdd(x, y) ==
    IF IsNaN(x) \/ IsNaN(y) THEN NaN
    ELSE IF ~IsFinite(x) /\ ~IsFinite(y) THEN (IF x = y THEN x ELSE NaN)
    ELSE IF ~IsFinite(x) THEN x
    ELSE IF ~IsFinite(y) THEN y
    ELSE Norm(x[1] * y[2] + y[1] * x[2], x[2] * y[2])

FNeg(x) == <<0 - x[1], x[2]>>

FSub(x, y) == FAdd(x, FNeg(y))

FMul(x, y) ==
    IF IsNaN(x) \/ IsNaN(y) THEN NaN
    ELSE IF ~IsFinite(x) \/ ~IsFinite(y) THEN <<Sign(x[1]) * Sign(y[1]), 0>>
    ELSE Norm(x[1] * y[1], x[2] * y[2])

\* Division of two columns' entries: x/0 is an infinity or NaN, never an error.
FDiv(x, y) ==
    IF IsNaN(x) \/ IsNaN(y) THEN NaN
    ELSE IF ~IsFinite(x) /\ ~IsFinite(y) THEN NaN
    ELSE IF ~IsFinite(x) THEN <<x[1] * (IF y[1] < 0 THEN -1 ELSE 1), 0>>
    ELSE IF ~IsFinite(y) THEN Rat(0)
    ELSE IF y[1] = 0 THEN <<Sign(x[1]), 0>>
    ELSE Norm(x[1] * y[2], x[2] * y[1])

\* x <= y on values that are not NaN.
FLeq(x, y) ==
    IF ~IsFinite(x) THEN (x[1] < 0 \/ x = y)
    ELSE IF ~IsFinite(y) THEN y[1] > 0
    ELSE x[1] * y[2] <= y[1] * x[2]

-----------------------------------------------------------------------------
(* StockFrame *)

\* pd.to_datetime(ms, unit="ms", origin="unix"): a Timestamp, counted here in
\* microseconds since the epoch; a "datetime" before the epoch is one before it.
to_datetime(ms) == ms * 1000

\* Symbols are compared as strings; the two of the model in their order.
SymbolRank(s) == IF s = "A" THEN 0 ELSE 1

IndexBefore(a, b) ==
    \/ SymbolRank(a.symbol) < SymbolRank(b.symbol)
    \/ a.symbol = b.symbol /\ a.datetime < b.datetime

RECURSIVE InsertSorted(_, _)
InsertSorted(sorted, r) ==
    IF sorted = <<>> THEN <<r>>
    ELSE IF IndexBefore(r, Head(sorted)) THEN <<r>> \o sorted
    ELSE <<Head(sorted)>> \o InsertSorted(Tail(sorted), r)

RECURSIVE SortRows(_, _)
SortRows(done, rest) ==
    IF rest = <<>> THEN done
    ELSE SortRows(InsertSorted(done, Head(rest)), Tail(rest))

no_sort(f) == f

\* frame.sort_index(inplace=True): rows in (symbol, datetime) order, stable.
sort_index(f) == SortRows(<<>>, f)

HasKey(f, sym, dt) == \E i \in DOMAIN f : f[i].symbol = sym /\ f[i].datetime = dt

NewRow(sym, dt, q) ==
    [symbol |-> sym, datetime |-> dt, open |-> q.open, close |-> q.close,
     high |-> q.high, low |-> q.low, volume |-> q.volume]

loc_append(f, sym, dt, q) == Append(f, NewRow(sym, dt, q))

\* frame.loc[row_id, column_names] = new_row.values: the price columns of every
\* row under the key are overwritten; a key the index lacks is appended.
loc_set(f, sym, dt, q) ==
    IF HasKey(f, sym, dt)
    THEN [i \in DOMAIN f |->
            IF f[i].symbol = sym /\ f[i].datetime = dt THEN NewRow(sym, dt, q) ELSE f[i]]
    ELSE Append(f, NewRow(sym, dt, q))

\* The body of add_rows: for each quote of the dict, in its order, parse the
\* timestamp, write the row, sort the frame.
RECURSIVE add_rows_loop(_, _)
add_rows_loop(f, data) ==
    IF data = <<>> THEN f
    ELSE LET e == Head(data)
             time_stamp == to_datetime(e.datetime)
         IN add_rows_loop(sort_index(loc_set(f, e.symbol, time_stamp, Quote(e.close))),
                          Tail(data))

\* The symbols of the frame, each with its rows in frame order
\* (frame.groupby(by="symbol", as_index=False, sort=True)).
symbol_groups(f) ==
    [s \in {f[i].symbol : i \in DOMAIN f} |-> SelectSeq(f, LAMBDA r : r.symbol = s)]

\* What a groupby object keeps of the frame it was built on: the index.
IndexOf(f) == [i \in DOMAIN f |-> <<f[i].symbol, f[i].datetime>>]

\* The dicts add_rows is called with, symbol -> quote: empty, one symbol, or both
\* symbols quoted at one instant, in either key order.
Entries == [symbol : Symbols, datetime : Millis, close : Prices]

SingleDatas == {<<e>> : e \in Entries}

Datas ==
    {<<>>} \cup SingleDatas
    \cup {<<p[1], p[2]>> : p \in {q \in Entries \X Entries :
                                    /\ q[1].symbol # q[2].symbol
                                    /\ q[1].datetime = q[2].datetime}}

-----------------------------------------------------------------------------
(* Initial state: a store with no rows and an Indicator built on it.  Every  *)
(* row enters through add_rows: create_frame, the constructor's bulk path,   *)
(* hands its frame to _set_multiple_index(price_df) under the keyword        *)
(* `price` and raises TypeError before a frame exists.                       *)

None == "<None>"

EmptyDict == [k \in {} |-> None]

\* Trade.__init__: the attributes a new Trade has.
Trade_new ==
    [order |-> EmptyDict, trade_id |-> "", side |-> "", side_opposite |-> "",
     enter_exit |-> "", enter_exit_opposite |-> "", order_response |-> "",
     trigger_added |-> FALSE, multi_leg |-> FALSE]

Init ==
    /\ frame = <<>>
    /\ price_groups = IndexOf(<<>>)
    /\ price_groups_attr = [set |-> FALSE, index |-> <<>>]
    /\ current_indicators = <<>>
    /\ indicator_signals = <<>>
    /\ positions = EmptyDict
    /\ trade = Trade_new
    /\ raised = "none"
    /\ call = [op |-> "init"]

\* The rows of the frame that `data` is about to overwrite.
RowsHeld(f, data) ==
    {f[i] : i \in {j \in DOMAIN f : \E k \in DOMAIN data :
                      /\ f[j].symbol = data[k].symbol
                      /\ f[j].datetime = to_datetime(data[k].datetime)}}

\* add_rows(data) with data drawn from `inputs`, on a store kept to `cap` rows.
add_rows_call(inputs, cap) ==
    \E data \in inputs :
        LET after == add_rows_loop(frame, data) IN
        /\ Len(after) <= cap
        /\ frame' = after
        /\ raised' = "none"
        /\ call' = [op |-> "add_rows", data |-> data, held |-> RowsHeld(frame, data)]
        /\ UNCHANGED <<indVars, deskVars>>

add_rows_on(inputs) == add_rows_call(inputs, MaxRows)

add_rows == add_rows_on(Datas)

NextStore == add_rows

SpecStore == Init /\ [][NextStore]_vars

-----------------------------------------------------------------------------
(* Indicator: the calls, as the interpreter runs them. *)

\* Quotes of one symbol at one closing price, one to a dict.
QuietDatas == {<<e>> : e \in {x \in Entries : x.symbol = "A" /\ x.close = 1}}

\* The alpha arguments tried with a period: unset, a half, and 2/(period+1).
Alphas(period) == {Rat(0), Norm(1, 2), Norm(2, period + 1)}

NoFunc == "<no func key>"

\* self._current_indicators[name] = {}; [name]["args"] = args; and, where the
\* call gets that far, [name]["func"] = func.  A dict keeps a key's first position.
reg_set(reg, name, args, func) ==
    LET entry == [name |-> name, args |-> args, func |-> func] IN
    IF \E i \in DOMAIN reg : reg[i].name = name
    THEN [i \in DOMAIN reg |-> IF reg[i].name = name THEN entry ELSE reg[i]]
    ELSE Append(reg, entry)

Registered(name) == \E i \in DOMAIN current_indicators : current_indicators[i].name = name

ArgsOf(name) ==
    (CHOOSE e \in {current_indicators[i] : i \in DOMAIN current_indicators} : e.name = name).args

\* Indicator(price_data_frame=stock_frame): the grouping is taken here, once.
Indicator_init ==
    /\ price_groups' = IndexOf(frame)
    /\ price_groups_attr' = [set |-> FALSE, index |-> <<>>]
    /\ current_indicators' = <<>>
    /\ indicator_signals' = <<>>
    /\ raised' = "none"
    /\ call' = [op |-> "Indicator"]
    /\ UNCHANGED <<frame, deskVars>>

\* change_in_price(): registers itself, then selects the column "closing" of the
\* grouping, which the frame does not have: KeyError.
change_in_price ==
    /\ "closing" \notin FrameColumns
    /\ current_indicators' =
          reg_set(current_indicators, "change_in_price", [k \in {} |-> 0], "change_in_price")
    /\ raised' = "KeyError"
    /\ call' = [op |-> "change_in_price"]
    /\ UNCHANGED <<frame, price_groups, price_groups_attr, indicator_signals, deskVars>>

\* relative_strength_index(period, method): `locals` is not called, and deleting
\* a key of the builtin raises TypeError before anything is stored.
relative_strength_index ==
    \E period \in Periods :
        /\ raised' = "TypeError"
        /\ call' = [op |-> "relative_strength_index", period |-> period, method |-> "wilders"]
        /\ UNCHANGED <<frame, indVars, deskVars>>

\* simple_moving_average(period): stores its arguments, then calls itself with
\* no period to fill the "func" key: TypeError; line 279 is not reached.
simple_moving_average_on(periods) ==
    \E period \in periods :
        /\ current_indicators' =
              reg_set(current_indicators, "sma", [period |-> period], NoFunc)
        /\ raised' = "TypeError"
        /\ call' = [op |-> "simple_moving_average", period |-> period]
        /\ UNCHANGED <<frame, price_groups, price_groups_attr, indicator_signals, deskVars>>

simple_moving_average == simple_moving_average_on(Periods)

\* exponential_moving_average(period, alpha): as simple_moving_average; the
\* argument alpha is stored and read nowhere.
exponential_moving_average ==
    \E period \in Periods : \E alpha \in Alphas(period) :
        /\ current_indicators' =
              reg_set(current_indicators, "ema", [period |-> period, alpha |-> alpha], NoFunc)
        /\ raised' = "TypeError"
        /\ call' = [op |-> "exponential_moving_average", period |-> period, alpha |-> alpha]
        /\ UNCHANGED <<frame, price_groups, price_groups_attr, indicator_signals, deskVars>>

\* refresh(): binds the new grouping to self.price_groups, an attribute nothing
\* reads (the indicators read self._price_groups); the loop then reads
\* self._current_indicators.indicator, which a dict does not have, before it
\* has invoked any stored function.
refresh ==
    /\ price_groups_attr' = [set |-> TRUE, index |-> IndexOf(frame)]
    /\ raised' = IF current_indicators = <<>> THEN "none" ELSE "AttributeError"
    /\ call' = [op |-> "refresh", invoked |-> <<>>]
    /\ UNCHANGED <<frame, price_groups, current_indicators, indicator_signals, deskVars>>

\* Names of indicators that Indicator has no method for.
OtherKinds == {"macd"}

\* getattr(indicator, kind)(...) for such a name: the attribute lookup fails.
other_indicator ==
    \E kind \in OtherKinds :
        /\ raised' = "AttributeError"
        /\ call' = [op |-> "other_indicator", kind |-> kind]
        /\ UNCHANGED <<frame, indVars, deskVars>>

NextInd ==
    \/ add_rows_on(QuietDatas)
    \/ other_indicator
    \/ Indicator_init
    \/ change_in_price
    \/ relative_strength_index
    \/ simple_moving_average
    \/ exponential_moving_average
    \/ refresh

SpecInd == Init /\ [][NextInd]_vars

-----------------------------------------------------------------------------
(* Indicator: the signal rules, and the calls that read them. *)

\* The keys rules are set under: an indicator column, and a column the frame has.
SignalKeys == {"sma", "close"}

\* The keys rules are asked for: those, one no rule is set under, and no key.
GetKeys == SignalKeys \cup {"ema", None}

Thresholds == {Rat(0), Rat(2)}

\* operator.gt and operator.lt, by name.
Operators == {"gt", "lt"}

SignalInputs ==
    [indicator : SignalKeys, buy : Thresholds, sell : Thresholds,
     condition_to_buy : Operators, condition_to_sell : Operators]

HasSignal(sig, name) == \E i \in DOMAIN sig : sig[i].name = name

SignalOf(sig, name) == (CHOOSE e \in {sig[i] : i \in DOMAIN sig} : e.name = name).rule

only_key(sig, name) == <<[name |-> name, rule |-> EmptyDict]>>

\* if indicator not in self._indicator_signals: self._indicator_signals[indicator] = {}
add_key(sig, name) ==
    IF HasSignal(sig, name) THEN sig ELSE Append(sig, [name |-> name, rule |-> EmptyDict])

\* d[k] = v
dict_set(d, k, v) == [x \in DOMAIN d \cup {k} |-> IF x = k THEN v ELSE d[x]]

\* self._indicator_signals[name][k] = v
signal_set(sig, name, k, v) ==
    [i \in DOMAIN sig |->
        IF sig[i].name = name THEN [sig[i] EXCEPT !.rule = dict_set(@, k, v)] ELSE sig[i]]

set_indicators_body(sig, a) ==
    LET s0 == add_key(sig, a.indicator)
        s1 == signal_set(s0, a.indicator, "buy", a.buy)
        s2 == signal_set(s1, a.indicator, "sell", a.sell)
        s3 == signal_set(s2, a.indicator, "buy_operator", a.condition_to_buy)
    IN signal_set(s3, a.indicator, "sell_operator", a.condition_to_sell)

\* The entries of the mapping under `name`.
SignalsNamed(sig, name) == SelectSeq(sig, LAMBDA e : e.name = name)

\* set_indicators(indicator, buy, sell, condition_to_buy, condition_to_sell)
set_indicators_on(inputs) ==
    \E a \in inputs :
        /\ indicator_signals' = set_indicators_body(indicator_signals, a)
        /\ raised' = "none"
        /\ call' = [op |-> "set_indicators", args |-> a,
                    held |-> SignalsNamed(indicator_signals, a.indicator)]
        /\ UNCHANGED <<frame, price_groups, price_groups_attr, current_indicators, deskVars>>

set_indicators == set_indicators_on(SignalInputs)

\* `if indicator`: None and the empty string are false.
Truthy(indicator) == indicator # None /\ indicator # ""

whole_mapping(sig, indicator) == [kind |-> "mapping", value |-> sig]

\* get_indicator(indicator): the rule under the key if there is one, and the
\* whole mapping otherwise.
get_indicator_value(sig, indicator) ==
    IF Truthy(indicator) /\ HasSignal(sig, indicator)
    THEN [kind |-> "rule", value |-> SignalOf(sig, indicator)]
    ELSE [kind |-> "mapping", value |-> sig]

get_indicator ==
    \E indicator \in GetKeys :
        /\ raised' = "none"
        /\ call' = [op |-> "get_indicator", indicator |-> indicator,
                    result |-> get_indicator_value(indicator_signals, indicator)]
        /\ UNCHANGED <<frame, indVars, deskVars>>

\* Indicator.check_singals(): looks up self._stock_frame._check_singals, a name
\* StockFrame does not have (its method is _check_signals): AttributeError,
\* before the arguments are evaluated.
check_singals ==
    /\ raised' = "AttributeError"
    /\ call' = [op |-> "check_singals"]
    /\ UNCHANGED <<frame, indVars, deskVars>>

\* StockFrame._check_signals(indicators): the body is `pass`; the call returns
\* None whatever the frame and the rules hold.
check_signals_value(f, indicators) == None

check_signals ==
    /\ raised' = "none"
    /\ call' = [op |-> "check_signals",
                result |-> check_signals_value(frame, indicator_signals)]
    /\ UNCHANGED <<frame, indVars, deskVars>>

\* One quote of one symbol at one instant.
SignalDatas == {<<e>> : e \in {x \in Entries : x.symbol = "A" /\ x.datetime = 0 /\ x.close = 1}}

NextSig ==
    \/ add_rows_on(SignalDatas)
    \/ Indicator_init
    \/ set_indicators
    \/ get_indicator
    \/ check_singals
    \/ check_signals

SpecSig == Init /\ [][NextSig]_vars

-----------------------------------------------------------------------------
(* Quotes dated before the epoch. *)

\* "datetime" values on both sides of the epoch.
SignedMillis == {-1, 0, 1}

SignedEntries == [symbol : Symbols, datetime : SignedMillis, close : Prices]

\* Dicts of one quote, and of one quote for each of the two symbols.
SignedDatas ==
    {<<e>> : e \in SignedEntries}
    \cup {<<p[1], p[2]>> : p \in {q \in SignedEntries \X SignedEntries :
                                    q[1].symbol # q[2].symbol}}

NextBars ==
    \/ add_rows_on(SignedDatas)
    \/ check_signals

SpecBars == Init /\ [][NextBars]_vars

-----------------------------------------------------------------------------
(* One symbol's closes 10, 10, 10, 12, 8, a quote a second, with a moving     *)
(* average of three and a buy rule above 10.5.                               *)

ScenarioCloses == <<10, 10, 10, 12, 8>>

ScenarioBar(k) == [symbol |-> "X", datetime |-> 1000 * k, close |-> ScenarioCloses[k]]

\* The quote that follows those the frame holds.
ScenarioNext ==
    IF Len(frame) < Len(ScenarioCloses) THEN {<<ScenarioBar(Len(frame) + 1)>>} ELSE {}

ScenarioPeriods == {3}

ScenarioRule ==
    [indicator |-> "sma", buy |-> Norm(21, 2), sell |-> Rat(0),
     condition_to_buy |-> "gt", condition_to_sell |-> "lt"]

NextScen ==
    \/ add_rows_call(ScenarioNext, Len(ScenarioCloses))
    \/ simple_moving_average_on(ScenarioPeriods)
    \/ set_indicators_on({ScenarioRule})
    \/ refresh
    \/ check_singals
    \/ check_signals

SpecScen == Init /\ [][NextScen]_vars

-----------------------------------------------------------------------------
(* The column expressions of the indicators. *)

Column(rows, c) == [i \in DOMAIN rows |-> rows[i][c]]

RECURSIVE SumFrom(_, _, _)
SumFrom(x, lo, hi) == IF lo > hi THEN 0 ELSE x[lo] + SumFrom(x, lo + 1, hi)

\* x.rolling(window=period).mean(): no value until the window is full.
rolling_mean(x, period) ==
    [i \in DOMAIN x |->
        IF i < period THEN NaN ELSE Norm(SumFrom(x, i - period + 1, i), period)]

PositionInGroup(f, i) == Cardinality({j \in 1 .. i : f[j].symbol = f[i].symbol})

frame_transform(f, period) ==
    [i \in DOMAIN f |-> [c \in FrameColumns |-> rolling_mean(Column(f, c), period)[i]]]

\* self._price_groups.transform(lambda x: x.rolling(window=period).mean()): the
\* lambda on every column of every group, the results in the rows of the frame.
group_transform(f, period) ==
    [i \in DOMAIN f |->
        [c \in FrameColumns |->
            rolling_mean(Column(symbol_groups(f)[f[i].symbol], c), period)[PositionInGroup(f, i)]]]

\* The right-hand side of line 279, on a grouping taken from the frame as it is.
sma_transform ==
    \E period \in Periods :
        /\ price_groups = IndexOf(frame)
        /\ raised' = "none"
        /\ call' = [op |-> "sma_transform", period |-> period,
                    result |-> group_transform(frame, period)]
        /\ UNCHANGED <<frame, indVars, deskVars>>

NextCalc ==
    \/ add_rows_on(SingleDatas)
    \/ Indicator_init
    \/ sma_transform

SpecCalc == Init /\ [][NextCalc]_vars

\* Values of the columns ewma_up and ewma_down: averages of moves, never negative.
RsiInputs == {Rat(0), Norm(1, 2), Rat(1), Rat(2)}

\* relative_strength = frame["ewma_up"] / frame["ewma_down"]
relative_strength(ewma_up, ewma_down) ==
    [i \in DOMAIN ewma_up |-> FDiv(ewma_up[i], ewma_down[i])]

\* relative_strength_index = 100.0 - ((100 / 1) + relative_strength)
rsi_expression(rs) ==
    [i \in DOMAIN rs |-> FSub(Rat(100), FAdd(FDiv(Rat(100), Rat(1)), rs[i]))]

\* np.where(relative_strength_index == 0, 100, relative_strength_index)
rsi_where(x) == [i \in DOMAIN x |-> IF x[i] = Rat(0) THEN Rat(100) ELSE x[i]]

rsi_column(ewma_up, ewma_down) == rsi_where(rsi_expression(relative_strength(ewma_up, ewma_down)))

\* Lines 223-232 on the two smoothed columns of the frame.
rsi_formula ==
    \E ewma_up \in [DOMAIN frame -> RsiInputs] : \E ewma_down \in [DOMAIN frame -> RsiInputs] :
        /\ raised' = "none"
        /\ call' = [op |-> "rsi_formula", ewma_up |-> ewma_up, ewma_down |-> ewma_down,
                    rsi |-> rsi_column(ewma_up, ewma_down)]
        /\ UNCHANGED <<frame, indVars, deskVars>>

NextRsi ==
    \/ add_rows_on(QuietDatas)
    \/ rsi_formula

SpecRsi == Init /\ [][NextRsi]_vars

-----------------------------------------------------------------------------
(* Portfolio *)

PurchasePrices == {Rat(1), Rat(2)}

CurrentPrices == {Rat(1), Rat(2), Rat(3)}

PositionInputs ==
    [symbol : Symbols, asset_type : {"equity"}, quantity : {1, 2},
     purchase_price : PurchasePrices, purchase_date : {None}]

\* del d[k]
dict_del(d, k) == [x \in DOMAIN d \ {k} |-> d[x]]

\* add_position(symbol, asset_type, quantity, purchase_price, purchase_date):
\* the position is written under the symbol, over the one that was there.
add_position ==
    \E a \in PositionInputs :
        /\ positions' =
              dict_set(positions, a.symbol,
                       [symbol |-> a.symbol, quantity |-> a.quantity,
                        purchase_price |-> a.purchase_price,
                        purchase_date |-> a.purchase_date, asset_type |-> a.asset_type])
        /\ raised' = "none"
        /\ call' = [op |-> "add_position", symbol |-> a.symbol]
        /\ UNCHANGED <<frame, indVars, trade>>

\* remove_position(symbol)
remove_position ==
    \E symbol \in Symbols :
        /\ positions' =
              IF symbol \in DOMAIN positions THEN dict_del(positions, symbol) ELSE positions
        /\ raised' = "none"
        /\ call' = [op |-> "remove_position", symbol |-> symbol,
                    result |-> IF symbol \in DOMAIN positions
                               THEN <<TRUE, symbol, " was successfully removed">>
                               ELSE <<FALSE, symbol, " does not exist in portfolio">>]
        /\ UNCHANGED <<frame, indVars, trade>>

\* in_position(symbol): reads self.position, an attribute a Portfolio does not
\* have (its dict is self.positions): AttributeError.
in_position ==
    \E symbol \in Symbols :
        /\ raised' = "AttributeError"
        /\ call' = [op |-> "in_position", symbol |-> symbol]
        /\ UNCHANGED <<frame, indVars, deskVars>>

\* is_profitable(symbol, current_price): for a symbol held, whether
\* purchase_price <= current_price; for any other the call falls off its end.
is_profitable_value(pos, symbol, current_price) ==
    IF symbol \in DOMAIN pos
    THEN FLeq(pos[symbol].purchase_price, current_price)
    ELSE None

is_profitable ==
    \E symbol \in Symbols : \E current_price \in CurrentPrices :
        /\ raised' = "none"
        /\ call' = [op |-> "is_profitable", symbol |-> symbol,
                    current_price |-> current_price,
                    result |-> is_profitable_value(positions, symbol, current_price)]
        /\ UNCHANGED <<frame, indVars, deskVars>>

NextPortfolio ==
    \/ add_position
    \/ remove_position
    \/ in_position
    \/ is_profitable

SpecPortfolio == Init /\ [][NextPortfolio]_vars

-----------------------------------------------------------------------------
(* Trade *)

order_types ==
    [mkt |-> "MARKET", lmt |-> "LIMIT", stop |-> "STOP", stop_lmt |-> "STOP_LIMIT",
     trailing_stop |-> "TRAILING_STOP"]

order_instructions ==
    [enter |-> [long |-> "BUY", short |-> "SELL_SHORT"],
     exit |-> [long |-> "SELL", short |-> "SELL_TO_COVER"]]

TradePrices == {Rat(10), Rat(20)}

TradeInputs ==
    [trade_id : {"t1"}, order_type : DOMAIN order_types, side : {"long", "short"},
     enter_exit : {"enter", "exit"}, price : TradePrices, stop_limit_price : {Rat(9)}]

\* d.update(r)
dict_update(d, r) ==
    [x \in DOMAIN d \cup DOMAIN r |-> IF x \in DOMAIN r THEN r[x] ELSE d[x]]

\* The order new_trade builds: the template, and the keys of the order type.
new_order(a) ==
    LET orderType == order_types[a.order_type]
        template ==
            [orderStrategyType |-> "SINGLE", orderType |-> orderType,
             session |-> "NORMAL", duration |-> "DAY",
             orderLegCollection |->
                <<[instructions |-> order_instructions[a.enter_exit][a.side],
                   quantity |-> 0,
                   instrument |-> [symbol |-> None, assetType |-> None]]>>]
    IN IF orderType = "STOP" THEN dict_update(template, [stopPrice |-> a.price])
       ELSE IF orderType = "LIMIT" THEN dict_update(template, [price |-> a.price])
       ELSE IF orderType = "STOP_LIMIT"
            THEN dict_update(template, [price |-> a.stop_limit_price, stopPrice |-> a.price])
       ELSE IF orderType = "TRAILING_STOP"
            THEN dict_update(template,
                    [stopPriceLinkBasis |-> "", stopPriceLinkType |-> "",
                     stopPriceOffset |-> Rat(0), stopType |-> "STANDARD"])
       ELSE template

\* The attributes new_trade leaves on the Trade.
new_trade_attrs(t, a) ==
    LET t1 == dict_update(t,
                 [trade_id |-> a.trade_id, order_types |-> order_types,
                  order_instructions |-> order_instructions, order |-> new_order(a),
                  enter_exit |-> a.enter_exit, side |-> a.side,
                  order_type |-> a.order_type, price |-> a.price])
        t2 == IF a.order_type = "stop" THEN dict_update(t1, [stop_price |-> a.price])
              ELSE IF a.order_type = "stop_lmt"
                   THEN dict_update(t1, [stop_limit_price |-> a.stop_limit_price])
              ELSE dict_update(t1, [stop_price |-> Rat(0), stop_limit_price |-> Rat(0)])
    IN dict_update(t2, [side_opposite |-> IF a.side = "long" THEN "short" ELSE "long"])

\* Trade(): a new object.
Trade_init ==
    /\ trade' = Trade_new
    /\ raised' = "none"
    /\ call' = [op |-> "Trade"]
    /\ UNCHANGED <<frame, indVars, positions>>

\* new_trade(trade_id, order_type, side, enter_exit, price, stop_limit_price)
new_trade ==
    \E a \in TradeInputs :
        /\ trade' = new_trade_attrs(trade, a)
        /\ raised' = "none"
        /\ call' = [op |-> "new_trade", args |-> a]
        /\ UNCHANGED <<frame, indVars, positions>>

InstrumentInputs == [symbol : {"A"}, quantity : {5}, asset_type : {"EQUITY"}]

\* instrument(symbol, quantity, asset_type): fills leg 0 of the order; an
\* order without legs (no new_trade yet) has no "orderLegCollection": KeyError.
instrument ==
    \E a \in InstrumentInputs :
        /\ IF "orderLegCollection" \in DOMAIN trade.order
           THEN LET leg == trade.order.orderLegCollection[1]
                    filled == [leg EXCEPT !.instrument.symbol = a.symbol,
                                          !.instrument.assetType = a.asset_type,
                                          !.quantity = a.quantity]
                IN /\ trade' = dict_update([trade EXCEPT !.order.orderLegCollection[1] = filled],
                                           [order_size |-> a.quantity, symbol |-> a.symbol,
                                            asset_type |-> a.asset_type])
                   /\ raised' = "none"
           ELSE /\ trade' = trade
                /\ raised' = "KeyError"
        /\ call' = [op |-> "instrument", args |-> a]
        /\ UNCHANGED <<frame, indVars, positions>>

\* _convert_to_trigger(): converts only an order that is empty, and leaves
\* trigger_added False.
convert_to_trigger ==
    /\ trade' =
          IF DOMAIN trade.order = {} /\ trade.trigger_added = FALSE
          THEN [trade EXCEPT !.order = dict_update(@, [orderStrategyType |-> "TRIGGER",
                                                       childOrderStrategies |-> <<>>]),
                             !.trigger_added = FALSE]
          ELSE trade
    /\ raised' = "none"
    /\ call' = [op |-> "_convert_to_trigger"]
    /\ UNCHANGED <<frame, indVars, positions>>

Sizes == {Norm(1, 10), Norm(1, 2)}

\* A call that stops at its first statement, `if not self.trigger_added:` with
\* trigger_added False, on the exception that statement raises.
stops_at_trigger(op, args, exception) ==
    /\ trade.trigger_added = FALSE
    /\ raised' = exception
    /\ call' = [op |-> op, args |-> args]
    /\ UNCHANGED <<frame, indVars, deskVars>>

\* add_take_profit(profit_size, percentage): self.convert_to_trigger() is not
\* a method of Trade (it is _convert_to_trigger): AttributeError.
add_take_profit ==
    \E a \in [profit_size : Sizes, percentage : BOOLEAN] :
        stops_at_trigger("add_take_profit", a, "AttributeError")

\* add_stop_loss(stop_size, percentage): self.trigger_added() calls the
\* boolean: TypeError.
add_stop_loss ==
    \E a \in [stop_size : Sizes, percentage : BOOLEAN] :
        stops_at_trigger("add_stop_loss", a, "TypeError")

\* add_stop_limit(stop_size, limit_size, ...): self.convert_t0_trigger() is not
\* a method of Trade: AttributeError.
add_stop_limit ==
    \E a \in [stop_size : Sizes, limit_size : Sizes] :
        stops_at_trigger("add_stop_limit", a, "AttributeError")

\* add_box_rage(profit_size, percentage, stop_limit): as add_take_profit.
add_box_rage ==
    \E a \in [profit_size : Sizes, percentage : BOOLEAN] :
        stops_at_trigger("add_box_rage", a, "AttributeError")

Sessions == {"am", "pm", "normal", "seamless", "AM", "open"}

no_upper(session) == session

\* str.upper() on the session names.
upper(session) ==
    CASE session = "am" -> "AM"
      [] session = "pm" -> "PM"
      [] session = "normal" -> "NORMAL"
      [] session = "seamless" -> "SEAMLESS"
      [] session = "open" -> "OPEN"
      [] OTHER -> session

\* modify_session(session)
modify_session ==
    \E session \in Sessions :
        /\ IF session \in {"am", "pm", "normal", "seamless"}
           THEN /\ trade' = [trade EXCEPT !.order = dict_set(@, "session", upper(session))]
                /\ raised' = "none"
           ELSE /\ trade' = trade
                /\ raised' = "ValueError"
        /\ call' = [op |-> "modify_session", session |-> session]
        /\ UNCHANGED <<frame, indVars, positions>>

NextTrade ==
    \/ Trade_init
    \/ new_trade
    \/ instrument
    \/ convert_to_trigger
    \/ add_take_profit
    \/ add_stop_loss
    \/ add_stop_limit
    \/ add_box_rage
    \/ modify_session

SpecTrade == Init /\ [][NextTrade]_vars

\* _calculate_new_price(price, percentage, adjustment); the two round() calls
\* return values that are dropped.
calculate_new_price(price, percentage, adjustment) ==
    IF percentage THEN FMul(price, adjustment) ELSE FAdd(price, adjustment)

\* Lines 280-289 of add_stop_loss: the adjustment of either branch goes to
\* _calculate_new_price with percentage=True.
stop_loss_price(price, stop_size, percentage) ==
    IF percentage
    THEN calculate_new_price(price, TRUE, FSub(Rat(1), stop_size))
    ELSE calculate_new_price(price, TRUE, FNeg(stop_size))

\* Lines 275-289 of add_stop_loss on a trade new_trade has set up: `price` is
\* bound for the order types mkt and lmt only.
stop_loss_lines ==
    \E a \in [stop_size : Sizes, percentage : BOOLEAN] :
        /\ "order_type" \in DOMAIN trade
        /\ IF trade.order_type \in {"mkt", "lmt"}
           THEN /\ raised' = "none"
                /\ call' = [op |-> "stop_loss_lines", args |-> a, price |-> trade.price,
                            new_price |-> stop_loss_price(trade.price, a.stop_size,
                                                          a.percentage)]
           ELSE /\ raised' = "UnboundLocalError"
                /\ call' = [op |-> "stop_loss_lines", args |-> a]
        /\ UNCHANGED <<frame, indVars, deskVars>>

NextPrice ==
    \/ new_trade
    \/ stop_loss_lines

SpecPrice == Init /\ [][NextPrice]_vars

-----------------------------------------------------------------------------
(* Robot: the market hours. *)

\* hh:mm:ss as seconds of the day.
hms(h, m, sec) == h * 3600 + m * 60 + sec

\* The seconds of the day the clock is read at: the quarter hours, and the
\* seconds around the four times the properties name.
ClockSeconds ==
    {900 * q : q \in 0 .. 95}
    \cup {t + d : t \in {hms(12, 0, 0), hms(13, 30, 0), hms(20, 30, 0), hms(22, 30, 0)},
                  d \in {-1, 0, 1}}

\* datetime.now(): the second of the day and the microsecond within it.
Readings == [sec : ClockSeconds, micro : {0, 500000}]

\* now.replace(hour=h, minute=m, second=sec): the microsecond is kept.
replace(now, h, m, sec) == [sec |-> hms(h, m, sec), micro |-> now.micro]

\* a.timestamp() >= b.timestamp(), for readings of one day.
AtOrAfter(a, b) == a.sec > b.sec \/ (a.sec = b.sec /\ a.micro >= b.micro)

\* The three properties; each reads the clock three times, n1, n2 and n3.
pre_market_open(n1, n2, n3) ==
    LET pre_market_time == replace(n1, 12, 0, 0)
        market_start_time == replace(n2, 13, 30, 0)
        right_now == n3
    IN AtOrAfter(market_start_time, right_now) /\ AtOrAfter(right_now, pre_market_time)

post_market_open(n1, n2, n3) ==
    LET post_market_end_time == replace(n1, 22, 30, 0)
        market_end_time == replace(n2, 20, 30, 0)
        right_now == n3
    IN AtOrAfter(post_market_end_time, right_now) /\ AtOrAfter(right_now, market_end_time)

regular_market_open(n1, n2, n3) ==
    LET market_start_time == replace(n1, 13, 30, 0)
        market_end_time == replace(n2, 20, 30, 0)
        right_now == n3
    IN AtOrAfter(market_end_time, right_now) /\ AtOrAfter(right_now, market_start_time)

\* The three properties read at one instant: every reading of the clock is `now`.
market_open ==
    \E now \in Readings :
        /\ raised' = "none"
        /\ call' = [op |-> "market_open", now |-> now,
                    pre_market_open |-> pre_market_open(now, now, now),
                    regular_market_open |-> regular_market_open(now, now, now),
                    post_market_open |-> post_market_open(now, now, now)]
        /\ UNCHANGED <<frame, indVars, deskVars>>

NextClock == market_open

SpecClock == Init /\ [][NextClock]_vars

-----------------------------------------------------------------------------
(* Claims about the store *)

StrictlyIncreasing(g) == \A i \in 1 .. Len(g) - 1 : g[i].datetime < g[i + 1].datetime

\* C1: after any sequence of add_rows calls, in any arrival order, every group
\* of symbol_groups is strictly increasing in timestamp, so no group holds two
\* rows with the same (symbol, timestamp).
C1_GroupsStrictlyIncreasing ==
    \A s \in DOMAIN symbol_groups(frame) : StrictlyIncreasing(symbol_groups(frame)[s])

\* A quote arrived out of order: a new key that is not the last of its group.
C1_Witness ==
    /\ call.op = "add_rows"
    /\ \E k \in DOMAIN call.data :
          LET sym == call.data[k].symbol
              dt == to_datetime(call.data[k].datetime)
              g == symbol_groups(frame)[sym]
          IN /\ \A r \in call.held : ~(r.symbol = sym /\ r.datetime = dt)
             /\ Len(g) >= 2
             /\ g[Len(g)].datetime > dt

RowsAt(f, sym, dt) == SelectSeq(f, LAMBDA r : r.symbol = sym /\ r.datetime = dt)

GroupLen(f, sym) == Len(SelectSeq(f, LAMBDA r : r.symbol = sym))

DataKeys(data) == {<<data[k].symbol, to_datetime(data[k].datetime)>> : k \in DOMAIN data}

RowsOffKeys(f, keys) == SelectSeq(f, LAMBDA r : <<r.symbol, r.datetime>> \notin keys)

\* What one add_rows call did to the frame, for each quote whose key was held.
UpsertStep(before, after, data) ==
    \A k \in DOMAIN data :
        LET sym == data[k].symbol
            dt == to_datetime(data[k].datetime)
        IN HasKey(before, sym, dt) =>
              /\ RowsAt(after, sym, dt) = <<NewRow(sym, dt, Quote(data[k].close))>>
              /\ GroupLen(after, sym) = GroupLen(before, sym)
              /\ RowsOffKeys(after, DataKeys(data)) = RowsOffKeys(before, DataKeys(data))
              /\ add_rows_loop(after, data) = after

\* C2: a quote whose (symbol, timestamp) is already held replaces the values at
\* that key, leaves the length of the symbol's series and every other row as
\* they were, and inserting it a second time changes nothing.
C2_UpsertReplaces ==
    [][call'.op = "add_rows" => UpsertStep(frame, frame', call'.data)]_vars

\* A held key was written with another closing price, beside rows of other keys.
C2_Witness ==
    /\ call.op = "add_rows"
    /\ \E k \in DOMAIN call.data : \E r \in call.held :
          /\ r.symbol = call.data[k].symbol
          /\ r.datetime = to_datetime(call.data[k].datetime)
          /\ r.close # call.data[k].close
    /\ Len(frame) >= 2

-----------------------------------------------------------------------------
(* Claims about the indicator columns *)

\* The entries of `col`, a column of frame f, that belong to symbol s.
RestrictTo(col, f, s) ==
    LET idx == {i \in DOMAIN f : f[i].symbol = s} IN
    [k \in 1 .. Cardinality(idx) |->
        col[CHOOSE i \in idx : Cardinality({j \in idx : j <= i}) = k]]

OnlySymbol(f, s) == SelectSeq(f, LAMBDA r : r.symbol = s)

\* Stores that hold the bars of s that f holds and other bars of the other symbols.
Variants(f, s) ==
    {OnlySymbol(f, s)}
    \cup {add_rows_loop(f, <<e>>) : e \in {x \in Entries : x.symbol # s}}

IndicatorColumn(f, name) ==
    [i \in DOMAIN f |-> IF name \in FrameColumns THEN Rat(f[i][name]) ELSE NaN]

ColumnOfGroup(name, s) == RestrictTo(IndicatorColumn(frame, name), frame, s)

ClosesOf(s) == Column(symbol_groups(frame)[s], "close")

MeanOf(x, lo, hi) == Norm(SumFrom(x, lo, hi), hi - lo + 1)

\* C4: after simple_moving_average(p), the sma column of every symbol holds at
\* index i >= p-1 the mean of the closes i-p+1..i and no value before.
C4_SmaIsWindowMean ==
    call.op = "simple_moving_average" =>
        \A s \in DOMAIN symbol_groups(frame) :
            \A i \in DOMAIN ClosesOf(s) :
                ColumnOfGroup("sma", s)[i] =
                    IF i >= call.period THEN MeanOf(ClosesOf(s), i - call.period + 1, i)
                    ELSE NaN

\* output[1] = close[1]; output[i] = alpha*close[i] + (1-alpha)*output[i-1].
RECURSIVE EmaAt(_, _, _)
EmaAt(x, alpha, i) ==
    IF i = 1 THEN Rat(x[1])
    ELSE FAdd(FMul(alpha, Rat(x[i])), FMul(FSub(Rat(1), alpha), EmaAt(x, alpha, i - 1)))

EmaOf(x, alpha) == [i \in DOMAIN x |-> EmaAt(x, alpha, i)]

\* C5: after exponential_moving_average(p, alpha) with alpha non-zero, the ema
\* column of every symbol is the recursion with the alpha supplied.
C5_EmaUsesAlpha ==
    (call.op = "exponential_moving_average" /\ call.alpha # Rat(0)) =>
        \A s \in DOMAIN symbol_groups(frame) :
            ColumnOfGroup("ema", s) = EmaOf(ClosesOf(s), call.alpha)

\* C6: exponential_moving_average(p, 0) yields the column that
\* exponential_moving_average(p, 2/(p+1)) is to yield.
C6_EmaDefaultAlpha ==
    (call.op = "exponential_moving_average" /\ call.alpha = Rat(0)) =>
        \A s \in DOMAIN symbol_groups(frame) :
            ColumnOfGroup("ema", s) = EmaOf(ClosesOf(s), Norm(2, call.period + 1))

InZeroToHundred(x) == FLeq(Rat(0), x) /\ FLeq(x, Rat(100))

C9_ShortSeriesNoError ==
    (/\ call.op \in {"simple_moving_average", "relative_strength_index"}
     /\ \E s \in DOMAIN symbol_groups(frame) : Len(symbol_groups(frame)[s]) < call.period) =>
        /\ raised = "none"
        /\ call.op = "simple_moving_average" =>
              \A s \in DOMAIN symbol_groups(frame) : \A i \in DOMAIN ClosesOf(s) :
                  IsNaN(ColumnOfGroup("sma", s)[i]) <=> i < call.period

\* C10: after refresh(), the grouping the indicators compute over is that of the
\* frame as it is, and a registered sma column is the one computed from the
\* start of each series.
C10_RefreshRecomputes ==
    call.op = "refresh" =>
        /\ price_groups = IndexOf(frame)
        /\ Registered("sma") =>
              \A s \in DOMAIN symbol_groups(frame) : \A i \in DOMAIN ClosesOf(s) :
                  i >= ArgsOf("sma").period =>
                      ColumnOfGroup("sma", s)[i]
                          = MeanOf(ClosesOf(s), i - ArgsOf("sma").period + 1, i)

\* The column a moving-average call is to leave for the closes x.
ColumnDue(c, x) ==
    IF c.op = "simple_moving_average"
    THEN [i \in DOMAIN x |-> IF i >= c.period THEN MeanOf(x, i - c.period + 1, i) ELSE NaN]
    ELSE EmaOf(x, IF c.alpha = Rat(0) THEN Norm(2, c.period + 1) ELSE c.alpha)

ColumnNameOf(c) == IF c.op = "simple_moving_average" THEN "sma" ELSE "ema"

ArgsOfCall(c) ==
    IF c.op = "simple_moving_average" THEN [period |-> c.period]
    ELSE [period |-> c.period, alpha |-> c.alpha]

EntriesNamed(reg, name) == SelectSeq(reg, LAMBDA e : e.name = name)

\* C11: a moving-average call under a column name that is already registered
\* leaves one definition under the name, with the arguments of this call, as
\* many definitions as before, and the column computed from these arguments.
C11_ReRegisterReplaces ==
    [][(/\ call'.op \in {"simple_moving_average", "exponential_moving_average"}
        /\ Registered(ColumnNameOf(call'))) =>
           LET name == ColumnNameOf(call')
               now == EntriesNamed(current_indicators', name)
           IN /\ Len(now) = 1
              /\ now[1].args = ArgsOfCall(call')
              /\ Len(current_indicators') = Len(current_indicators)
              /\ \A sym \in DOMAIN symbol_groups(frame') :
                    RestrictTo(IndicatorColumn(frame', name), frame', sym)
                        = ColumnDue(call', Column(symbol_groups(frame')[sym], "close"))]_vars

-----------------------------------------------------------------------------
(* Claims about the signal rules *)

RuleOfCall(a) ==
    [buy |-> a.buy, sell |-> a.sell,
     buy_operator |-> a.condition_to_buy, sell_operator |-> a.condition_to_sell]

OtherSignals(sig, name) == SelectSeq(sig, LAMBDA e : e.name # name)

\* C12: a set_indicators call leaves under its key exactly one rule, the buy and
\* sell thresholds and operators of that call, and leaves the rules under every
\* other key as they were; no other call on the Indicator changes a rule.
C12_SetRuleUpserts ==
    [][IF call'.op = "set_indicators"
       THEN LET a == call'.args IN
            /\ SignalsNamed(indicator_signals', a.indicator)
                  = <<[name |-> a.indicator, rule |-> RuleOfCall(a)]>>
            /\ OtherSignals(indicator_signals', a.indicator)
                  = OtherSignals(indicator_signals, a.indicator)
       ELSE call'.op # "Indicator" => indicator_signals' = indicator_signals]_vars

\* A rule was replaced by one that differs in every part, beside another key's rule.
C12_Witness ==
    /\ call.op = "set_indicators"
    /\ Len(call.held) = 1
    /\ call.held[1].rule.buy # call.args.buy
    /\ call.held[1].rule.sell # call.args.sell
    /\ call.held[1].rule.buy_operator # call.args.condition_to_buy
    /\ call.held[1].rule.sell_operator # call.args.condition_to_sell
    /\ call.args.buy # call.args.sell
    /\ call.args.condition_to_buy # call.args.condition_to_sell
    /\ Len(indicator_signals) = 2

\* C13: get_indicator(name) returns the rule set under the name when there is
\* one and None when there is none, never the mapping of all rules.
C13_GetRuleOrAbsent ==
    call.op = "get_indicator" =>
        IF HasSignal(indicator_signals, call.indicator)
        THEN /\ call.result.kind = "rule"
             /\ call.result.value = SignalOf(indicator_signals, call.indicator)
        ELSE call.result.kind = "None"

\* C13, amended: get_indicator(name) returns the rule set under the name when
\* the name is not empty and has one, and the mapping of all rules otherwise;
\* it never returns the rule set under another name.
C13_GetRuleOrMapping ==
    call.op = "get_indicator" =>
        IF Truthy(call.indicator)
           /\ \E i \in DOMAIN indicator_signals : indicator_signals[i].name = call.indicator
        THEN /\ call.result.kind = "rule"
             /\ \A i \in DOMAIN indicator_signals :
                   indicator_signals[i].name = call.indicator
                       => call.result.value = indicator_signals[i].rule
        ELSE /\ call.result.kind = "mapping"
             /\ call.result.value = indicator_signals

\* The second of two keys was asked for, and its rule differs from the first's.
C13_Witness ==
    /\ call.op = "get_indicator"
    /\ Len(indicator_signals) = 2
    /\ call.indicator = indicator_signals[2].name
    /\ indicator_signals[1].rule # indicator_signals[2].rule
    /\ call.result.kind = "rule"
    /\ call.result.value = indicator_signals[2].rule

\* operator.gt(x, y) and operator.lt(x, y) on values that are not NaN.
Holds(op, x, y) == IF op = "gt" THEN ~FLeq(x, y) ELSE FLeq(x, y) /\ x # y

LatestRow(f, s) == LET g == symbol_groups(f)[s] IN g[Len(g)]

\* The value of column `name` in the last row of s; no value without the column.
LatestValue(f, s, name) ==
    IF name \in FrameColumns THEN Rat(LatestRow(f, s)[name]) ELSE NaN

\* The events the rules justify on the last rows of the frame.
Justified(f, sig) ==
    {ev \in [side : {"Buy", "Sell"}, symbol : DOMAIN symbol_groups(f),
             indicator : {sig[i].name : i \in DOMAIN sig}] :
        LET v == LatestValue(f, ev.symbol, ev.indicator)
            r == SignalOf(sig, ev.indicator)
        IN /\ ~IsNaN(v)
           /\ IF ev.side = "Buy" THEN Holds(r.buy_operator, v, r.buy)
              ELSE Holds(r.sell_operator, v, r.sell)}

\* The events a signal check handed back: none when it raised or returned None.
EmittedBy(c) == IF c.op = "check_signals" /\ c.result # None THEN c.result ELSE {}

IsCheck(c) == c.op \in {"check_singals", "check_signals"}

\* C14: a signal check emits Buy for a symbol and a rule exactly when the buy
\* operator holds of the last row's value and the buy threshold, Sell exactly
\* when the sell operator holds, both when both hold, and nothing else.
C14_EventsAsRules ==
    IsCheck(call) => EmittedBy(call) = Justified(frame, indicator_signals)

AbsentPairs(f, sig) ==
    {p \in (DOMAIN symbol_groups(f)) \X {sig[i].name : i \in DOMAIN sig} :
        IsNaN(LatestValue(f, p[1], p[2]))}

\* C15: when the last value of a rule's column is absent for a symbol,
\* check_singals does not raise, emits nothing for that pair, and emits for
\* the other pairs what their rules justify.
C15_AbsentValueSkipped ==
    (call.op = "check_singals" /\ AbsentPairs(frame, indicator_signals) # {}) =>
        /\ raised = "none"
        /\ \A ev \in EmittedBy(call) :
              <<ev.symbol, ev.indicator>> \notin AbsentPairs(frame, indicator_signals)
        /\ EmittedBy(call) = Justified(frame, indicator_signals)

\* C16: a signal check with any rules, on a store where a symbol has no rows
\* or that has no rows at all, does not raise and emits nothing for the symbol.
C16_NoBarsNoEvents ==
    (IsCheck(call) /\ \E s \in Symbols : s \notin DOMAIN symbol_groups(frame)) =>
        /\ raised = "none"
        /\ \A ev \in EmittedBy(call) : ev.symbol \in DOMAIN symbol_groups(frame)
        /\ frame = <<>> => EmittedBy(call) = {}

\* C17: a signal check leaves the frame, the registered indicators and the
\* rules as they were and returns its events, and a second check right after
\* the first returns the same events.
C17_CheckIsRestartable ==
    [][(call'.op = "check_singals") =>
          /\ UNCHANGED <<frame, current_indicators, indicator_signals>>
          /\ raised' = "none"
          /\ call.op = "check_singals" => EmittedBy(call') = EmittedBy(call)]_vars

ScenarioSma == <<NaN, NaN, Rat(10), Norm(32, 3), Rat(10)>>

BuyOfX == [side |-> "Buy", symbol |-> "X", indicator |-> "sma"]

\* C18: with the moving average of three registered and the buy rule above
\* 10.5 set, a refresh and a signal check after each quote of the scenario find
\* the sma column at <absent, absent, 10, 32/3, 10> as far as the quotes go,
\* no Buy with the last row at 1000, 2000 or 3000, and a Buy for X at 4000.
C18_Scenario ==
    [][(/\ call.op = "refresh"
        /\ call'.op = "check_singals"
        /\ frame # <<>>
        /\ Registered("sma")
        /\ HasSignal(indicator_signals, "sma")) =>
           /\ raised' = "none"
           /\ \A i \in DOMAIN frame' : IndicatorColumn(frame', "sma")[i] = ScenarioSma[i]
           /\ Len(frame') <= 3 => BuyOfX \notin EmittedBy(call')
           /\ Len(frame') = 4 => BuyOfX \in EmittedBy(call')]_vars

NotBefore(data) == SelectSeq(data, LAMBDA e : e.datetime >= 0)

\* C19: add_rows with a quote dated before the epoch raises OutOfRangeError,
\* and the frame is left as it was but for the other quotes of the dict.
C19_NegativeRejected ==
    [][call'.op = "add_rows" =>
          /\ frame' = add_rows_loop(frame, NotBefore(call'.data))
          /\ NotBefore(call'.data) # call'.data => raised' = "OutOfRangeError"]_vars

GreatestRow(f, s) ==
    CHOOSE r \in {f[i] : i \in {j \in DOMAIN f : f[j].symbol = s}} :
        \A i \in DOMAIN f : f[i].symbol = s => f[i].datetime <= r.datetime

\* C20: the last row handed back for a symbol is its row of the greatest
\* datetime, whatever order the quotes came in, and there is none for a symbol
\* that has no rows.
C20_LatestIsGreatest ==
    call.op = "check_signals" =>
        \A s \in Symbols :
            IF s \in DOMAIN symbol_groups(frame)
            THEN /\ call.result # None
                 /\ s \in DOMAIN call.result
                 /\ call.result[s] = GreatestRow(frame, s)
            ELSE call.result = None \/ s \notin DOMAIN call.result

-----------------------------------------------------------------------------
(* Claims about the Portfolio *)

\* C22: in_position(symbol) is True exactly when the symbol is held and False
\* otherwise; remove_position returns (True, message) and removes the position
\* of a symbol that is held, and returns (False, message) and leaves the
\* positions as they were for one that is not.
C22_InPositionIffHeld ==
    [][/\ call'.op = "in_position" =>
             /\ raised' = "none"
             /\ call'.result = (call'.symbol \in DOMAIN positions)
             /\ positions' = positions
       /\ call'.op = "remove_position" =>
             IF call'.symbol \in DOMAIN positions
             THEN /\ call'.result[1] = TRUE
                  /\ DOMAIN positions' = DOMAIN positions \ {call'.symbol}
                  /\ \A s \in DOMAIN positions' : positions'[s] = positions[s]
             ELSE /\ call'.result[1] = FALSE
                  /\ positions' = positions]_vars

\* C23: for a symbol that is held, is_profitable(symbol, current_price) is True
\* when current_price is above the purchase price, False when the two are
\* equal, and a boolean in every case.
C23_ProfitableNotFlat ==
    (call.op = "is_profitable" /\ call.symbol \in DOMAIN positions) =>
        LET bought == positions[call.symbol].purchase_price IN
        /\ call.result \in BOOLEAN
        /\ (bought # call.current_price /\ FLeq(bought, call.current_price))
              => call.result = TRUE
        /\ bought = call.current_price => call.result = FALSE

-----------------------------------------------------------------------------
(* Claims about the Trade *)

AddCalls == {"add_take_profit", "add_stop_loss", "add_stop_limit", "add_box_rage"}

\* new_trade and instrument have been called on the Trade.
Built(t) ==
    /\ "orderLegCollection" \in DOMAIN t.order
    /\ "symbol" \in DOMAIN t

ChildrenOf(t) ==
    IF "childOrderStrategies" \in DOMAIN t.order THEN t.order.childOrderStrategies ELSE <<>>

\* C24: on a trade built by new_trade and instrument, an add_* call returns
\* True and leaves a trigger order (orderStrategyType TRIGGER, trigger_added
\* True) whose children are those it had, in their order, and the new ones.
C24_AddConvertsOnce ==
    [][(call'.op \in AddCalls /\ Built(trade)) =>
          /\ raised' = "none"
          /\ trade'.trigger_added = TRUE
          /\ trade'.order.orderStrategyType = "TRIGGER"
          /\ Len(ChildrenOf(trade')) > Len(ChildrenOf(trade))
          /\ SubSeq(ChildrenOf(trade'), 1, Len(ChildrenOf(trade))) = ChildrenOf(trade)]_vars

SessionNames == [am |-> "AM", pm |-> "PM", normal |-> "NORMAL", seamless |-> "SEAMLESS"]

\* C25: modify_session(session) with one of am, pm, normal, seamless sets
\* order["session"] to the name in capitals and changes nothing else of the
\* order; with any other argument it raises ValueError and changes nothing.
C25_ModifySession ==
    [][call'.op = "modify_session" =>
          IF call'.session \in DOMAIN SessionNames
          THEN /\ raised' = "none"
               /\ trade'.order.session = SessionNames[call'.session]
               /\ DOMAIN trade'.order = DOMAIN trade.order \cup {"session"}
               /\ \A k \in DOMAIN trade.order \ {"session"} :
                     trade'.order[k] = trade.order[k]
               /\ [trade' EXCEPT !.order = trade.order] = trade
          ELSE /\ raised' = "ValueError"
               /\ trade' = trade]_vars

\* The session of an order that new_trade and instrument built was moved from
\* NORMAL to PM.
C25_Witness ==
    /\ call.op = "modify_session"
    /\ call.session = "pm"
    /\ Built(trade)
    /\ trade.order.session = "PM"
    /\ trade.order.orderLegCollection[1].instrument.symbol = "A"

-----------------------------------------------------------------------------
(* Claims about the indicator registry and the market hours *)

\* C21: asking for an indicator other than the ones Indicator computes fails
\* with UnsupportedIndicatorError and leaves the registered indicators and the
\* frame as they were.
C21_UnknownKindRejected ==
    [][call'.op = "other_indicator" =>
          /\ raised' = "UnsupportedIndicatorError"
          /\ current_indicators' = current_indicators
          /\ frame' = frame]_vars

\* C27: refresh() invokes every registered indicator once, in the order of
\* registration, with the arguments stored for it, returns, and leaves the
\* registry as it was.
C27_RefreshInvokesEach ==
    [][call'.op = "refresh" =>
          /\ raised' = "none"
          /\ call'.invoked =
                [i \in DOMAIN current_indicators |->
                    [name |-> current_indicators[i].name, args |-> current_indicators[i].args]]
          /\ current_indicators' = current_indicators]_vars

\* C28: every key of the registry of indicators, change_in_price included, is
\* a column of the frame.
C28_RegisteredHaveColumns ==
    \A i \in DOMAIN current_indicators : current_indicators[i].name \in FrameColumns

Count(b) == IF b THEN 1 ELSE 0

\* C29: at no instant are two of pre_market_open, regular_market_open and
\* post_market_open True, 13:30:00 and 20:30:00 included.
C29_OneSessionAtATime ==
    call.op = "market_open" =>
        Count(call.pre_market_open) + Count(call.regular_market_open)
            + Count(call.post_market_open) <= 1

====
